---- MODULE Spec2Model ----
(***************************************************************************)
(* A state-machine model of the simulated data pipeline: the orchestrator  *)
(* (src/src/pipeline/orchestrator.py), the simulated services              *)
(* (src/src/simulators/aws_services.py), the run metrics and alert         *)
(* registry (src/src/utils/metrics.py, src/src/utils/alerts.py) and the    *)
(* "Run Pipeline" block of the dashboard (src/app.py, lines 308-394).      *)
(***************************************************************************)
EXTENDS Integers, Sequences, FiniteSets, TLC

(***************************************************************************)
(* Bounds of the model.                                                    *)
(***************************************************************************)
\* full-pipeline invocations ("Run Pipeline" clicks) in one session
MaxRuns == 2
\* rows of a dataset handed to the pipeline
MaxRows == 3
\* add_run calls made directly on a metrics tracker
MaxAdds == 3
\* largest duration / record count passed to add_run directly
MaxVal == 1
\* alerts created in one registry
MaxAlerts == 3
\* calls made directly on the query service
MaxQueries == 3
\* half seconds the user may wait before a "Run Pipeline" click
MaxDelay == 1
\* seeds of the random generator at process start
MaxSeed == 1
\* numeric columns of a dataset handed to the quality checker
MaxCols == 21
\* calls a client makes directly on the stage methods
MaxCalls == 3

(***************************************************************************)
(* Exact arithmetic.  Floating-point values are modelled as rationals      *)
(* n/d in lowest terms with d > 0.                                         *)
(***************************************************************************)
Abs(x) == IF x < 0 THEN -x ELSE x

Min(a, b) == IF a <= b THEN a ELSE b

Max(a, b) == IF a >= b THEN a ELSE b

RECURSIVE GCD(_, _)
GCD(a, b) == IF b = 0 THEN a ELSE GCD(b, a % b)

Rat(n, d) ==
    IF n = 0 THEN [n |-> 0, d |-> 1]
    ELSE LET g == GCD(Abs(n), Abs(d))
             sg == IF d < 0 THEN -1 ELSE 1
         IN [n |-> sg * (n \div g), d |-> sg * (d \div g)]

\* sums and products are formed over the least common denominator and
\* after cancelling, which keeps the intermediate integers small
RAdd(x, y) ==
    LET g == GCD(x.d, y.d)
    IN Rat(x.n * (y.d \div g) + y.n * (x.d \div g), x.d * (y.d \div g))

RSub(x, y) == RAdd(x, [n |-> 0 - y.n, d |-> y.d])

RMul(x, y) ==
    LET g1 == IF x.n = 0 THEN 1 ELSE GCD(Abs(x.n), y.d)
        g2 == IF y.n = 0 THEN 1 ELSE GCD(Abs(y.n), x.d)
    IN Rat((x.n \div g1) * (y.n \div g2), (x.d \div g2) * (y.d \div g1))

\* y # 0
RDiv(x, y) ==
    RMul(x, IF y.n < 0 THEN [n |-> 0 - y.d, d |-> 0 - y.n] ELSE [n |-> y.d, d |-> y.n])

RLess(x, y) == x.n * y.d < y.n * x.d

RLeq(x, y) == x.n * y.d <= y.n * x.d

RInt(i) == [n |-> i, d |-> 1]

(***************************************************************************)
(* Cells, rows and datasets (pandas DataFrames).  A cell is a record of    *)
(* one shape so that any two cells can be compared:                        *)
(*   k = "num"  the number n/d                                             *)
(*   k = "sqrt" the number sqrt(n/d) (a row-wise standard deviation)       *)
(*   k = "str"  the text s                                                 *)
(*   k = "ts"   the ISO-8601 text of clock reading n                       *)
(*   k = "nan"  a missing value (NaN / None)                               *)
(* A dataset is its columns (name and dtype, in order) and its rows.       *)
(***************************************************************************)
Num(n, d) == [k |-> "num", n |-> Rat(n, d).n, d |-> Rat(n, d).d, s |-> ""]

NumR(r) == [k |-> "num", n |-> r.n, d |-> r.d, s |-> ""]

Str(t) == [k |-> "str", n |-> 0, d |-> 1, s |-> t]

Stamp(t) == [k |-> "ts", n |-> t, d |-> 1, s |-> ""]

NaN == [k |-> "nan", n |-> 0, d |-> 1, s |-> ""]

IsNull(c) == c.k = "nan"

RatOf(c) == [n |-> c.n, d |-> c.d]

Col(name, dtype) == [name |-> name, dtype |-> dtype]

DataFrame(cols, rows) == [cols |-> cols, rows |-> rows]

\* len(df)
NRows(df) == Len(df.rows)

\* len(df.columns)
NCols(df) == Len(df.cols)

\* pd.DataFrame()
EmptyFrame == DataFrame(<<>>, <<>>)

\* df[col] as the sequence of its cells
Column(df, j) == [i \in 1..NRows(df) |-> df.rows[i][j]]

\* df[name] = cells: replaces the column of that name, or appends it
SetColumn(df, name, dtype, cells) ==
    IF \E j \in 1..NCols(df) : df.cols[j].name = name
    THEN LET j == CHOOSE j \in 1..NCols(df) : df.cols[j].name = name
         IN DataFrame([df.cols EXCEPT ![j] = Col(name, dtype)],
                      [i \in 1..NRows(df) |-> [df.rows[i] EXCEPT ![j] = cells[i]]])
    ELSE DataFrame(Append(df.cols, Col(name, dtype)),
                   [i \in 1..NRows(df) |-> Append(df.rows[i], cells[i])])

(***************************************************************************)
(* The cleaning stage: GlueSimulator.process_data.                         *)
(***************************************************************************)
\* DataFrame.drop_duplicates(): a row equal in every column to an earlier
\* row is dropped, the first occurrence is kept, order is preserved
\* (missing values compare equal to each other).
RECURSIVE DropDupRows(_, _)
DropDupRows(rows, kept) ==
    IF rows = <<>> THEN kept
    ELSE IF \E i \in 1..Len(kept) : kept[i] = Head(rows)
         THEN DropDupRows(Tail(rows), kept)
         ELSE DropDupRows(Tail(rows), Append(kept, Head(rows)))

\* a faulty drop_duplicates (keep=False): every row that has an equal
\* row elsewhere is dropped, its first occurrence included
drop_duplicates_keep_false(df) ==
    DataFrame(df.cols,
              SelectSeq(df.rows,
                        LAMBDA r : Cardinality({ i \in 1..Len(df.rows) : df.rows[i] = r }) = 1))

drop_duplicates(df) == DataFrame(df.cols, DropDupRows(df.rows, <<>>))

\* the non-missing cells of a sequence of cells, in order
RECURSIVE DropNa(_)
DropNa(cells) ==
    IF cells = <<>> THEN <<>>
    ELSE IF IsNull(Head(cells)) THEN DropNa(Tail(cells))
         ELSE <<Head(cells)>> \o DropNa(Tail(cells))

\* insertion of a number into an ascending sequence of numbers
RECURSIVE InsertSorted(_, _)
InsertSorted(c, sorted) ==
    IF sorted = <<>> THEN <<c>>
    ELSE IF RLeq(RatOf(c), RatOf(Head(sorted))) THEN <<c>> \o sorted
         ELSE <<Head(sorted)>> \o InsertSorted(c, Tail(sorted))

RECURSIVE SortCells(_)
SortCells(cells) ==
    IF cells = <<>> THEN <<>> ELSE InsertSorted(Head(cells), SortCells(Tail(cells)))

\* Series.median(): the middle of the non-missing values (the mean of the
\* two middle ones for an even count), NaN when there is none
median(cells) ==
    LET v == SortCells(DropNa(cells))
        m == Len(v)
    IN IF m = 0 THEN NaN
       ELSE IF m % 2 = 1 THEN v[(m + 1) \div 2]
       ELSE NumR(RDiv(RAdd(RatOf(v[m \div 2]), RatOf(v[m \div 2 + 1])), RInt(2)))

\* Series.fillna(value): fillna(NaN) changes nothing
fillna(cells, value) ==
    [i \in 1..Len(cells) |-> IF IsNull(cells[i]) THEN value ELSE cells[i]]

\* the loop of lines 54-58, column by column
RECURSIVE FillColumns(_, _)
FillColumns(df, j) ==
    IF j > NCols(df) THEN df
    ELSE LET col == Column(df, j)
             filled == IF df.cols[j].dtype \in {"float64", "int64"}
                       THEN fillna(col, median(col))
                       ELSE fillna(col, Str("Unknown"))
         IN FillColumns(DataFrame(df.cols,
                           [i \in 1..NRows(df) |-> [df.rows[i] EXCEPT ![j] = filled[i]]]),
                        j + 1)

\* The pseudo-random generator behind np.random.uniform: a full-period
\* linear congruential generator; each state yields one value of
\* [0.90, 1.00] in hundredths.
RngNext(r) == (5 * r + 3) % 16

RngValue(r) == Num(90 + (r % 11), 100)

RECURSIVE RngAfter(_, _)
RngAfter(r, count) == IF count = 0 THEN r ELSE RngAfter(RngNext(r), count - 1)

\* np.random.uniform(0.9, 1.0, count) from generator state r
uniform(r, count) == [i \in 1..count |-> RngValue(RngAfter(r, i - 1))]

\* GlueSimulator.process_data(df) at clock reading t with generator state r.
\* Lines 56 and 58 call fillna(..., inplace=True) on processed_df[col]: the
\* column is written through to the frame by a pandas without copy-on-write,
\* and under copy-on-write (cow) the call fills a temporary and the frame
\* keeps its missing values.
glue_process_data(df, t, r, cow) ==
    LET deduped == drop_duplicates(df)
        filled == IF cow THEN deduped ELSE FillColumns(deduped, 1)
        stamped == SetColumn(filled, "processed_timestamp", "object",
                             [i \in 1..NRows(filled) |-> Stamp(t)])
    IN SetColumn(stamped, "data_quality", "float64", uniform(r, NRows(stamped)))

(***************************************************************************)
(* The enrichment stage: LambdaSimulator.transform_data.                   *)
(***************************************************************************)
\* select_dtypes(include=['number']).columns.tolist(): the positions of
\* the numeric columns, in column order
RECURSIVE NumericFrom(_, _)
NumericFrom(df, j) ==
    IF j > NCols(df) THEN <<>>
    ELSE IF df.cols[j].dtype \in {"float64", "int64"}
         THEN <<j>> \o NumericFrom(df, j + 1)
         ELSE NumericFrom(df, j + 1)

numeric_cols(df) == NumericFrom(df, 1)

\* the cells of row i in the columns js
RowCells(df, i, js) == [q \in 1..Len(js) |-> df.rows[i][js[q]]]

RECURSIVE SumCells(_)
SumCells(cells) ==
    IF cells = <<>> THEN RInt(0) ELSE RAdd(RatOf(Head(cells)), SumCells(Tail(cells)))

\* the sum of the squared distances of the cells to m
RECURSIVE SumSq(_, _)
SumSq(cells, m) ==
    IF cells = <<>> THEN RInt(0)
    ELSE LET dlt == RSub(RatOf(Head(cells)), m)
         IN RAdd(RMul(dlt, dlt), SumSq(Tail(cells), m))

\* DataFrame.sum(axis=1): missing values are skipped, an empty sum is 0
row_sum(cells) == NumR(SumCells(DropNa(cells)))

\* DataFrame.mean(axis=1): over the non-missing values, NaN when there is none
row_mean(cells) ==
    LET v == DropNa(cells)
    IN IF v = <<>> THEN NaN ELSE NumR(RDiv(SumCells(v), RInt(Len(v))))

\* DataFrame.std(axis=1): the sample standard deviation (ddof = 1) of the
\* non-missing values, NaN when there are fewer than two
row_std(cells) ==
    LET v == DropNa(cells)
    IN IF Len(v) < 2 THEN NaN
       ELSE LET m == RDiv(SumCells(v), RInt(Len(v)))
                var == RDiv(SumSq(v, m), RInt(Len(v) - 1))
            IN IF var.n = 0 THEN Num(0, 1)
               ELSE [k |-> "sqrt", n |-> var.n, d |-> var.d, s |-> ""]

\* Series.min() / Series.max(): over the non-missing values, NaN when none
col_min(cells) ==
    LET v == SortCells(DropNa(cells)) IN IF v = <<>> THEN NaN ELSE v[1]

col_max(cells) ==
    LET v == SortCells(DropNa(cells)) IN IF v = <<>> THEN NaN ELSE v[Len(v)]

\* (df[col] - col_min) / (col_max - col_min), a missing value stays missing
normalized(cells, lo, hi) ==
    [i \in 1..Len(cells) |->
        IF IsNull(cells[i]) THEN NaN
        ELSE NumR(RDiv(RSub(RatOf(cells[i]), RatOf(lo)), RSub(RatOf(hi), RatOf(lo))))]

\* the loop of lines 99-103 over the columns js (positions in df0, whose
\* columns are read from the frame being built)
RECURSIVE AddNormalized(_, _)
AddNormalized(df, js) ==
    IF js = <<>> THEN df
    ELSE LET cells == Column(df, Head(js))
             lo == col_min(cells)
             hi == col_max(cells)
             next == IF ~IsNull(lo) /\ ~IsNull(hi) /\ RLess(RatOf(lo), RatOf(hi))
                     THEN SetColumn(df, df.cols[Head(js)].name \o "_normalized",
                                    "float64", normalized(cells, lo, hi))
                     ELSE df
         IN AddNormalized(next, Tail(js))

\* a stand-in for Python's hash(str(row)): a checksum of the row's cells
StrCode(t) ==
    CASE t = "" -> 0 [] t = "A" -> 1 [] t = "B" -> 2 [] t = "Unknown" -> 3 [] OTHER -> 4

KindCode(c) ==
    CASE c.k = "num" -> 1 [] c.k = "sqrt" -> 2 [] c.k = "str" -> 3
      [] c.k = "ts" -> 4 [] OTHER -> 5

RECURSIVE RowHash(_, _)
RowHash(row, h) ==
    IF row = <<>> THEN h
    ELSE LET c == Head(row)
         IN RowHash(Tail(row),
                    (31 * h + 7 * KindCode(c) + 5 * Abs(c.n) + 3 * c.d + StrCode(c.s)) % 65536)

\* a faulty slice that lets a fourth numeric column through
FirstFour(js) == SubSeq(js, 1, Min(4, Len(js)))

\* numeric_cols[:min(3, len(numeric_cols))]
FirstThree(js) == SubSeq(js, 1, Min(3, Len(js)))

\* LambdaSimulator.transform_data(df) at clock reading t
lambda_transform_data(df, t) ==
    LET js == numeric_cols(df)
        allInt == \A q \in 1..Len(js) : df.cols[js[q]].dtype = "int64"
        rows == 1..NRows(df)
        withSum == SetColumn(df, "numeric_sum", IF allInt THEN "int64" ELSE "float64",
                             [i \in rows |-> row_sum(RowCells(df, i, js))])
        withMean == SetColumn(withSum, "numeric_mean", "float64",
                              [i \in rows |-> row_mean(RowCells(withSum, i, js))])
        withStd == SetColumn(withMean, "numeric_std", "float64",
                             [i \in rows |-> row_std(RowCells(withMean, i, js))])
        enriched == IF Len(js) > 0 THEN AddNormalized(withStd, FirstThree(js)) ELSE df
        stamped == SetColumn(enriched, "transform_timestamp", "object",
                             [i \in rows |-> Stamp(t)])
    IN SetColumn(stamped, "record_hash", "int64",
                 [i \in rows |-> Num(RowHash(stamped.rows[i], 0), 1)])

(***************************************************************************)
(* Query text.  A text is the sequence of its characters, so that the      *)
(* string operations of AthenaSimulator.execute_query can be modelled by   *)
(* what they do.                                                           *)
(***************************************************************************)
LowerCase == <<"a", "b", "c", "d", "e", "f", "g", "h", "i", "j", "k", "l", "m", "n", "o", "p", "q", "r", "s", "t", "u", "v", "w", "x", "y", "z">>

UpperCase == <<"A", "B", "C", "D", "E", "F", "G", "H", "I", "J", "K", "L", "M", "N", "O", "P", "Q", "R", "S", "T", "U", "V", "W", "X", "Y", "Z">>

Digits == <<"0", "1", "2", "3", "4", "5", "6", "7", "8", "9">>

LIMIT == <<"L", "I", "M", "I", "T">>

IsSpace(c) == c = " "

IsDigit(c) == \E i \in 1..10 : Digits[i] = c

DigitValue(c) == (CHOOSE i \in 1..10 : Digits[i] = c) - 1

\* str.upper()
upper(text) ==
    [i \in 1..Len(text) |->
        IF \E q \in 1..26 : LowerCase[q] = text[i]
        THEN UpperCase[CHOOSE q \in 1..26 : LowerCase[q] = text[i]]
        ELSE text[i]]

\* whether pat occurs in text at position i
OccursAt(text, pat, i) ==
    /\ i >= 1
    /\ i + Len(pat) - 1 <= Len(text)
    /\ \A q \in 1..Len(pat) : text[i + q - 1] = pat[q]

\* pat in text
Contains(text, pat) == \E i \in 1..Len(text) : OccursAt(text, pat, i)

\* the position of the first occurrence of pat in text at or after i, or 0
RECURSIVE FindFrom(_, _, _)
FindFrom(text, pat, i) ==
    IF i + Len(pat) - 1 > Len(text) THEN 0
    ELSE IF OccursAt(text, pat, i) THEN i
    ELSE FindFrom(text, pat, i + 1)

\* text.split(pat)[1] for a text that contains pat: what lies between the
\* first occurrence of pat and the next one (or the end of the text)
SplitSecond(text, pat) ==
    LET first == FindFrom(text, pat, 1)
        from == first + Len(pat)
        nxt == FindFrom(text, pat, from)
    IN SubSeq(text, from, IF nxt = 0 THEN Len(text) ELSE nxt - 1)

\* str.strip()
RECURSIVE LStrip(_)
LStrip(text) ==
    IF text # <<>> /\ IsSpace(Head(text)) THEN LStrip(Tail(text)) ELSE text

RECURSIVE RStrip(_)
RStrip(text) ==
    IF text # <<>> /\ IsSpace(text[Len(text)])
    THEN RStrip(SubSeq(text, 1, Len(text) - 1)) ELSE text

strip(text) == RStrip(LStrip(text))

\* the leading characters of text up to the first blank
RECURSIVE UntilSpace(_)
UntilSpace(text) ==
    IF text = <<>> \/ IsSpace(Head(text)) THEN <<>>
    ELSE <<Head(text)>> \o UntilSpace(Tail(text))

\* whether text.split() has a first element (it raises IndexError otherwise)
HasFirstWord(text) == LStrip(text) # <<>>

\* text.split()[0]
FirstWord(text) == UntilSpace(LStrip(text))

RECURSIVE DigitsValue(_, _)
DigitsValue(text, acc) ==
    IF text = <<>> THEN acc
    ELSE DigitsValue(Tail(text), 10 * acc + DigitValue(Head(text)))

AllDigits(text) == text # <<>> /\ \A i \in 1..Len(text) : IsDigit(text[i])

\* whether int(word) returns (it raises ValueError otherwise): an optional
\* sign and then decimal digits
IntParses(word) ==
    \/ AllDigits(word)
    \/ /\ word # <<>>
       /\ Head(word) \in {"+", "-"}
       /\ AllDigits(Tail(word))

\* int(word), for a word that parses
IntOf(word) ==
    IF Head(word) = "-" THEN 0 - DigitsValue(Tail(word), 0)
    ELSE IF Head(word) = "+" THEN DigitsValue(Tail(word), 0)
    ELSE DigitsValue(word, 0)

\* DataFrame.head(count): the first count rows; for a negative count all
\* rows but the last -count
head(df, count) ==
    DataFrame(df.cols,
              SubSeq(df.rows, 1,
                     IF count >= 0 THEN Min(count, NRows(df))
                     ELSE Max(NRows(df) + count, 0)))

\* lines 139-144: the frame execute_query returns for a registered table
apply_limit(df, query) ==
    IF Contains(upper(query), LIMIT)
    THEN LET rest == strip(SplitSecond(upper(query), LIMIT))
         IN IF HasFirstWord(rest) /\ IntParses(FirstWord(rest))
            THEN head(df, IntOf(FirstWord(rest)))
            ELSE df
    ELSE df

(***************************************************************************)
(* State.                                                                  *)
(***************************************************************************)
VARIABLES
    now,                    \* the wall clock, in half seconds
    rng,                    \* the state of numpy's global random generator
    storage,                \* S3Simulator.storage: key -> dataset
    csv_files,              \* the CSV snapshots written under data/raw
    tables,                 \* AthenaSimulator.tables: table name -> dataset
    queries,                \* AthenaSimulator.queries: the query log
    execution_log,          \* PipelineOrchestrator.execution_log
    runs,                   \* PipelineMetrics.runs
    total_records,          \* PipelineMetrics.total_records
    alerts,                 \* AlertManager.alerts: the registry (alert identities)
    heap,                   \* the Alert objects created so far, by identity
    pc,                     \* position in the "Run Pipeline" block of app.py
    data_to_process,        \* app.py: the dataset the user submitted
    ingestion_result,       \* app.py locals: the datasets of the stage results
    processing_result,
    transformation_result,
    start_time,             \* app.py: time.time() at line 319
    clicks,                 \* "Run Pipeline" clicks so far
    call,                   \* the latest call made directly on a component
    returned,               \* what that call returned
    ncalls,                 \* the number of calls made directly on a component
    copy_on_write,          \* whether the installed pandas runs in copy-on-write mode
    report,                 \* what the latest check_quality call returned
    frames,                 \* the dataset objects of a client of the stages, by identity
    held                    \* which dataset object each holder refers to

vars == <<now, rng, storage, csv_files, tables, queries, execution_log, runs,
          total_records, alerts, heap, pc, data_to_process, ingestion_result,
          processing_result, transformation_result, start_time, clicks, call,
          returned, ncalls, copy_on_write, report, frames, held>>

s3_vars == <<storage, csv_files>>

athena_vars == <<tables, queries>>

metrics_vars == <<runs, total_records>>

alert_vars == <<alerts, heap>>

app_vars == <<pc, data_to_process, ingestion_result, processing_result,
              transformation_result, start_time, clicks>>

call_vars == <<call, returned, ncalls>>

quality_vars == <<report>>

object_vars == <<frames, held>>

\* a Python dict as a function; d[key] = value
Put(dict, key, value) ==
    [x \in DOMAIN dict \cup {key} |-> IF x = key THEN value ELSE dict[x]]

Last(seq) == seq[Len(seq)]

\* a call on a component, and the shape of what it returned
Call(op, text, table) == [op |-> op, text |-> text, table |-> table]

Returned(kind, df, alert) == [kind |-> kind, df |-> df, alert |-> alert]

NoCall == Call("none", <<>>, "")

Nothing == Returned("none", EmptyFrame, 0)

\* no dataset object is referred to yet
NoRefs == [inputs |-> {}, log |-> <<>>, storage |-> <<>>, tables |-> <<>>, result |-> 0]

(***************************************************************************)
(* Inputs.                                                                 *)
(***************************************************************************)
\* pd.read_csv's dtype of a column: object for text (and for a file with no
\* data row), float64 when a value is missing or fractional, int64 otherwise
infer_dtype(cells) ==
    IF Len(cells) = 0 THEN "object"
    ELSE IF \E i \in 1..Len(cells) : cells[i].k = "str" THEN "object"
    ELSE IF \E i \in 1..Len(cells) : IsNull(cells[i]) \/ cells[i].d # 1 THEN "float64"
    ELSE "int64"

\* pd.read_csv (app.py line 252): a frame of the named columns over rows
read_csv(names, rows) ==
    DataFrame([j \in 1..Len(names) |->
                  Col(names[j], infer_dtype([i \in 1..Len(rows) |-> rows[i][j]]))],
              rows)

\* the rows a file may hold
RowChoices ==
    { <<Num(1, 1), Str("A")>>, <<Num(3, 1), Str("B")>>, <<NaN, Str("A")>>, <<NaN, NaN>> }

RowSeqs(maxLen) == UNION { [1..k -> RowChoices] : k \in 0..maxLen }

\* every dataset of at most MaxRows rows over the columns value, category
Inputs == { read_csv(<<"value", "category">>, rows) : rows \in RowSeqs(MaxRows) }

\* {id: [1, 1, 2], value: [5, 5, 10]}: a file with a duplicate row
UploadDuplicates ==
    read_csv(<<"id", "value">>,
             << <<Num(1, 1), Num(5, 1)>>, <<Num(1, 1), Num(5, 1)>>,
                <<Num(2, 1), Num(10, 1)>> >>)

\* a file with missing values
UploadMissing ==
    read_csv(<<"value", "category">>,
             << <<Num(1, 1), Str("A")>>, <<NaN, NaN>> >>)

\* a file with a header line and no data row
UploadEmpty == read_csv(<<"value", "category">>, <<>>)

\* the files the user uploads in a dashboard session
Uploads == {UploadDuplicates, UploadMissing, UploadEmpty}

(***************************************************************************)
(* The simulated services (src/src/simulators/aws_services.py).            *)
(***************************************************************************)
\* the second of clock reading t, which names the object: the key
\* raw/data_<yyyymmdd_HHMMSS>.csv of orchestrator.py line 17
S3Key(t) == t \div 2

\* S3Simulator.upload_data(df, key); with io_ok false df.to_csv raises
upload_data(df, key, io_ok) ==
    /\ storage' = Put(storage, key, df)
    /\ csv_files' = IF io_ok THEN Put(csv_files, key, df) ELSE csv_files

\* AthenaSimulator.store_data(df, table_name)
store_data(df, table_name) == tables' = Put(tables, table_name, df)

\* the frame AthenaSimulator.execute_query(query, table_name) returns
query_frame(query, table_name) ==
    IF table_name \notin DOMAIN tables THEN EmptyFrame
    ELSE apply_limit(tables[table_name], query)

QueryRecord(query, t, rows_returned) ==
    [query |-> query, timestamp |-> t, rows_returned |-> rows_returned]

\* AthenaSimulator.execute_query(query, table_name) at clock reading t
execute_query(query, table_name, t) ==
    /\ queries' = IF table_name \notin DOMAIN tables THEN queries
                  ELSE Append(queries,
                              QueryRecord(query, t, NRows(query_frame(query, table_name))))
    /\ returned' = Returned("frame", query_frame(query, table_name), 0)
    /\ UNCHANGED tables

(***************************************************************************)
(* The orchestrator (src/src/pipeline/orchestrator.py).  A stage method    *)
(* either returns its result, which is then the last entry of the          *)
(* execution log, or lets the exception of the service call through        *)
(* (ok false).                                                             *)
(***************************************************************************)
StageResult(stage, data, t, s3_key, quality_score) ==
    [stage |-> stage, data |-> data, timestamp |-> t, records |-> NRows(data),
     s3_key |-> s3_key, quality_score |-> quality_score]

\* a faulty ingest_data that appends its result before the upload
ingest_data_logs_first(df, t, io_ok) ==
    /\ upload_data(df, S3Key(t), io_ok)
    /\ execution_log' =
          Append(execution_log, StageResult("ingestion", df, t, S3Key(t), NaN))

\* PipelineOrchestrator.ingest_data(df) at clock reading t
ingest_data(df, t, io_ok) ==
    /\ upload_data(df, S3Key(t), io_ok)
    /\ execution_log' =
          IF io_ok
          THEN Append(execution_log, StageResult("ingestion", df, t, S3Key(t), NaN))
          ELSE execution_log

\* PipelineOrchestrator.process_data(df) at clock reading t
process_data(df, t, ok) ==
    /\ rng' = IF ok THEN RngAfter(rng, NRows(drop_duplicates(df))) ELSE rng
    /\ execution_log' =
          IF ok
          THEN Append(execution_log,
                      StageResult("processing",
                                  glue_process_data(df, t, rng, copy_on_write),
                                  t, -1, Num(985, 10)))
          ELSE execution_log

\* PipelineOrchestrator.transform_data(df) at clock reading t
transform_data(df, t, ok) ==
    execution_log' =
        IF ok
        THEN Append(execution_log,
                    StageResult("transformation", lambda_transform_data(df, t), t, -1, NaN))
        ELSE execution_log

\* PipelineOrchestrator.setup_query(df) at clock reading t
setup_query(df, t) ==
    /\ store_data(df, "pipeline_data")
    /\ execution_log' = Append(execution_log, StageResult("query", df, t, -1, NaN))

\* PipelineOrchestrator.get_execution_log()
get_execution_log == execution_log

(***************************************************************************)
(* The run metrics tracker (src/src/utils/metrics.py).                     *)
(***************************************************************************)
PipelineRun(t, duration, success, records) ==
    [timestamp |-> t, duration |-> duration, success |-> success, records |-> records]

\* a faulty add_run that counts the records of failed runs too
add_run_counts_failures(duration, success, records, t) ==
    /\ runs' = Append(runs, PipelineRun(t, duration, success, records))
    /\ total_records' = total_records + records

\* PipelineMetrics.add_run(duration, success, records) at clock reading t
add_run(duration, success, records, t) ==
    /\ runs' = Append(runs, PipelineRun(t, duration, success, records))
    /\ total_records' = IF success THEN total_records + records ELSE total_records

\* PipelineMetrics.get_total_runs()
get_total_runs == Len(runs)

\* sum(1 for run in self.runs if run['success'])
RECURSIVE CountSuccesses(_)
CountSuccesses(rs) ==
    IF rs = <<>> THEN 0
    ELSE (IF Head(rs).success THEN 1 ELSE 0) + CountSuccesses(Tail(rs))

\* sum(run['duration'] for run in self.runs)
RECURSIVE SumDurations(_)
SumDurations(rs) ==
    IF rs = <<>> THEN 0 ELSE Head(rs).duration + SumDurations(Tail(rs))

\* a faulty get_success_rate that reports 0 on a fresh tracker
get_success_rate_zero_when_empty ==
    IF runs = <<>> THEN RInt(0)
    ELSE RMul(RDiv(RInt(CountSuccesses(runs)), RInt(Len(runs))), RInt(100))

\* PipelineMetrics.get_success_rate(), a percentage
get_success_rate ==
    IF runs = <<>> THEN RInt(100)
    ELSE RMul(RDiv(RInt(CountSuccesses(runs)), RInt(Len(runs))), RInt(100))

\* PipelineMetrics.get_avg_duration()
get_avg_duration ==
    IF runs = <<>> THEN RInt(0)
    ELSE RDiv(RInt(SumDurations(runs)), RInt(Len(runs)))

\* PipelineMetrics.get_total_records()
get_total_records == total_records

(***************************************************************************)
(* The data quality checker (src/src/utils/metrics.py lines 41-76).  A     *)
(* score is a cell: a number or NaN.                                       *)
(***************************************************************************)
\* a + b in floating point: NaN when an operand is NaN
CellAdd(a, b) ==
    IF IsNull(a) \/ IsNull(b) THEN NaN ELSE NumR(RAdd(RatOf(a), RatOf(b)))

\* a / k for a number k # 0
CellDiv(a, k) == IF IsNull(a) THEN NaN ELSE NumR(RDiv(RatOf(a), RInt(k)))

\* (part / whole) * 100 where part is a numpy scalar: 0 / 0 is NaN (and a
\* RuntimeWarning)
Percent(part, whole) == IF whole = 0 THEN NaN ELSE Num(100 * part, whole)

\* df.isnull().sum().sum()
missing_cells(df) ==
    Cardinality({ <<i, j>> \in (1..NRows(df)) \X (1..NCols(df)) : IsNull(df.rows[i][j]) })

\* df.duplicated().sum(): the rows equal to an earlier row
duplicate_rows(df) == NRows(df) - NRows(drop_duplicates(df))

\* (df[col] < 0).any() for the column at position j
HasNegative(df, j) ==
    \E i \in 1..NRows(df) : df.rows[i][j].k = "num" /\ df.rows[i][j].n < 0

\* a faulty test of line 59 that also counts a zero as negative
offending_cols_counts_zero(df) ==
    SelectSeq(numeric_cols(df),
              LAMBDA j : \E i \in 1..NRows(df) :
                            df.rows[i][j].k = "num" /\ df.rows[i][j].n <= 0)

\* the numeric columns that hold a negative value, in column order
offending_cols(df) == SelectSeq(numeric_cols(df), LAMBDA j : HasNegative(df, j))

\* the entries of the issues list
MissingIssue(count) == [issue |-> "missing values", column |-> "", count |-> count]

NegativeIssue(name) == [issue |-> "negative values", column |-> name, count |-> 0]

DuplicateIssue(count) == [issue |-> "duplicate rows", column |-> "", count |-> count]

\* the issues list, in the order in which lines 53-68 append to it
issues_of(df) ==
    (IF missing_cells(df) > 0 THEN <<MissingIssue(missing_cells(df))>> ELSE <<>>)
    \o [q \in 1..Len(offending_cols(df)) |->
           NegativeIssue(df.cols[offending_cols(df)[q]].name)]
    \o (IF duplicate_rows(df) > 0 THEN <<DuplicateIssue(duplicate_rows(df))>> ELSE <<>>)

\* the shape of what a check_quality call comes to
QualityReport(kind, completeness, validity, uniqueness, issues, overall_score) ==
    [kind |-> kind, completeness |-> completeness, validity |-> validity,
     uniqueness |-> uniqueness, issues |-> issues, overall_score |-> overall_score]

NoReport == QualityReport("none", NaN, NaN, NaN, <<>>, NaN)

\* the call left with a ZeroDivisionError
RaisedReport == QualityReport("raised", NaN, NaN, NaN, <<>>, NaN)

\* DataQualityChecker.check_quality(df).  The divisions of lines 51 and 65
\* are by df.shape[0] * df.shape[1] and by df.shape[0], with no guard; the
\* dividend is what a pandas reduction returned.  With np_div it is a numpy
\* scalar and 0 / 0 is NaN; without, it is a Python number (the sum of an
\* empty object Series) and the division raises ZeroDivisionError.
check_quality(df, np_div) ==
    LET total_cells == NRows(df) * NCols(df)
        completeness == Percent(total_cells - missing_cells(df), total_cells)
        validity == 100 - 5 * Len(offending_cols(df))
        uniqueness == Percent(NRows(df) - duplicate_rows(df), NRows(df))
    IN IF total_cells = 0 /\ ~np_div THEN RaisedReport
       ELSE QualityReport("report", completeness, Num(Max(validity, 0), 1), uniqueness,
                          issues_of(df),
                          CellDiv(CellAdd(CellAdd(completeness, Num(validity, 1)),
                                          uniqueness), 3))

(***************************************************************************)
(* The alert registry (src/src/utils/alerts.py).  An Alert object is       *)
(* known by its identity, its position in heap.                            *)
(***************************************************************************)
AlertSeverity == {"info", "warning", "error", "critical"}

\* Alert.__init__
Alert(severity, message, source, t) ==
    [severity |-> severity, message |-> message, source |-> source,
     timestamp |-> t, acknowledged |-> FALSE]

\* AlertManager.create_alert(severity, message, source) at clock reading t
create_alert(severity, message, source, t) ==
    /\ heap' = Append(heap, Alert(severity, message, source, t))
    /\ alerts' = Append(alerts, Len(heap) + 1)
    /\ returned' = Returned("alert", EmptyFrame, Len(heap) + 1)

IsActive(a) == ~heap[a].acknowledged

\* a faulty get_active_alerts that forgets the filter
get_active_alerts_unfiltered == alerts

\* AlertManager.get_active_alerts()
get_active_alerts == SelectSeq(alerts, IsActive)

\* AlertManager.get_all_alerts()
get_all_alerts == alerts

\* AlertManager.acknowledge_alert(alert), Alert.acknowledge()
acknowledge_alert(a) ==
    /\ heap' = [heap EXCEPT ![a].acknowledged = TRUE]
    /\ UNCHANGED alerts

\* a faulty clear_acknowledged that empties the registry
clear_acknowledged_everything ==
    /\ alerts' = <<>>
    /\ UNCHANGED heap

\* AlertManager.clear_acknowledged()
clear_acknowledged ==
    /\ alerts' = SelectSeq(alerts, IsActive)
    /\ UNCHANGED heap

(***************************************************************************)
(* The "Run Pipeline" block of the dashboard (src/app.py lines 308-394).   *)
(* pc is the position in the block: "idle" (no run in progress), then      *)
(* "ingest", "process", "transform", "query" (about to call that stage),   *)
(* "record" (all four stages returned) or "except" (an exception reached   *)
(* the except clause of line 391).  Each time.sleep(0.5) advances the      *)
(* clock by one half second.                                               *)
(***************************************************************************)
\* lines 308-319: the click, delay half seconds after the previous step
RunPipeline(df, delay) ==
    /\ pc = "idle"
    /\ clicks < MaxRuns
    /\ clicks' = clicks + 1
    /\ data_to_process' = df
    /\ now' = now + delay
    /\ start_time' = now + delay
    /\ ingestion_result' = EmptyFrame
    /\ processing_result' = EmptyFrame
    /\ transformation_result' = EmptyFrame
    /\ pc' = "ingest"
    /\ UNCHANGED <<copy_on_write, quality_vars, object_vars>>
    /\ UNCHANGED <<rng, s3_vars, athena_vars, execution_log, metrics_vars,
                   alert_vars, call_vars>>

\* a faulty block that hands the ingested data straight to the
\* transformation stage
IngestStageSkipsProcessing(io_ok) ==
    /\ pc = "ingest"
    /\ now' = now + 1
    /\ ingest_data(data_to_process, now + 1, io_ok)
    /\ ingestion_result' = IF io_ok THEN Last(execution_log').data ELSE ingestion_result
    /\ pc' = IF io_ok THEN "transform" ELSE "except"
    /\ UNCHANGED <<copy_on_write, quality_vars, object_vars>>
    /\ UNCHANGED <<rng, athena_vars, metrics_vars, alert_vars, call_vars,
                   data_to_process, processing_result, transformation_result,
                   start_time, clicks>>

\* lines 321-327
IngestStage(io_ok) ==
    /\ pc = "ingest"
    /\ now' = now + 1
    /\ ingest_data(data_to_process, now + 1, io_ok)
    /\ ingestion_result' = IF io_ok THEN Last(execution_log').data ELSE ingestion_result
    /\ pc' = IF io_ok THEN "process" ELSE "except"
    /\ UNCHANGED <<copy_on_write, quality_vars, object_vars>>
    /\ UNCHANGED <<rng, athena_vars, metrics_vars, alert_vars, call_vars,
                   data_to_process, processing_result, transformation_result,
                   start_time, clicks>>

\* lines 329-334
ProcessStage(ok) ==
    /\ pc = "process"
    /\ now' = now + 1
    /\ process_data(ingestion_result, now + 1, ok)
    /\ processing_result' = IF ok THEN Last(execution_log').data ELSE processing_result
    /\ pc' = IF ok THEN "transform" ELSE "except"
    /\ UNCHANGED <<copy_on_write, quality_vars, object_vars>>
    /\ UNCHANGED <<s3_vars, athena_vars, metrics_vars, alert_vars, call_vars,
                   data_to_process, ingestion_result, transformation_result,
                   start_time, clicks>>

\* lines 336-341
TransformStage(ok) ==
    /\ pc = "transform"
    /\ now' = now + 1
    /\ transform_data(processing_result, now + 1, ok)
    /\ transformation_result' =
          IF ok THEN Last(execution_log').data ELSE transformation_result
    /\ pc' = IF ok THEN "query" ELSE "except"
    /\ UNCHANGED <<copy_on_write, quality_vars, object_vars>>
    /\ UNCHANGED <<rng, s3_vars, athena_vars, metrics_vars, alert_vars, call_vars,
                   data_to_process, ingestion_result, processing_result,
                   start_time, clicks>>

\* lines 343-348
QueryStage ==
    /\ pc = "query"
    /\ now' = now + 1
    /\ setup_query(transformation_result, now + 1)
    /\ pc' = "record"
    /\ UNCHANGED <<copy_on_write, quality_vars, object_vars>>
    /\ UNCHANGED <<rng, s3_vars, queries, metrics_vars, alert_vars, call_vars,
                   data_to_process, ingestion_result, processing_result,
                   transformation_result, start_time, clicks>>

\* lines 350-389: the run is recorded as a success
RecordSuccess ==
    /\ pc = "record"
    /\ add_run(now - start_time, TRUE, NRows(data_to_process), now)
    /\ pc' = "idle"
    /\ UNCHANGED <<copy_on_write, quality_vars, object_vars>>
    /\ UNCHANGED <<now, rng, s3_vars, athena_vars, execution_log, alert_vars,
                   call_vars, data_to_process, ingestion_result, processing_result,
                   transformation_result, start_time, clicks>>

\* a faulty except clause that reports the error and records nothing
HandleExceptionSilently ==
    /\ pc = "except"
    /\ pc' = "idle"
    /\ UNCHANGED <<copy_on_write, quality_vars, object_vars>>
    /\ UNCHANGED <<now, rng, s3_vars, athena_vars, execution_log, metrics_vars,
                   alert_vars, call_vars, data_to_process, ingestion_result,
                   processing_result, transformation_result, start_time, clicks>>

\* lines 391-394: the except clause
HandleException ==
    /\ pc = "except"
    /\ add_run(0, FALSE, 0, now)
    /\ pc' = "idle"
    /\ UNCHANGED <<copy_on_write, quality_vars, object_vars>>
    /\ UNCHANGED <<now, rng, s3_vars, athena_vars, execution_log, alert_vars,
                   call_vars, data_to_process, ingestion_result, processing_result,
                   transformation_result, start_time, clicks>>

(***************************************************************************)
(* Calls made directly on a component by its client.                       *)
(***************************************************************************)
\* PipelineMetrics.add_run called by a client
AddRun(duration, success, records) ==
    /\ Len(runs) < MaxAdds
    /\ add_run(duration, success, records, now)
    /\ UNCHANGED <<copy_on_write, quality_vars, object_vars>>
    /\ UNCHANGED <<now, rng, s3_vars, athena_vars, execution_log, alert_vars,
                   app_vars, call_vars>>

AlertMessages == {"Pipeline failed"}

\* AlertManager.create_alert called by a client
CreateAlert(severity, message) ==
    /\ Len(heap) < MaxAlerts
    /\ create_alert(severity, message, "Pipeline", now)
    /\ call' = Call("create_alert", <<>>, "")
    /\ UNCHANGED <<copy_on_write, quality_vars, object_vars>>
    /\ UNCHANGED <<ncalls, now, rng, s3_vars, athena_vars, execution_log, metrics_vars,
                   app_vars>>

\* AlertManager.acknowledge_alert called by a client on an alert it holds
AcknowledgeAlert(a) ==
    /\ acknowledge_alert(a)
    /\ call' = Call("acknowledge_alert", <<>>, "")
    /\ returned' = Nothing
    /\ UNCHANGED <<copy_on_write, quality_vars, object_vars>>
    /\ UNCHANGED <<ncalls, now, rng, s3_vars, athena_vars, execution_log, metrics_vars,
                   app_vars>>

\* AlertManager.clear_acknowledged called by a client
ClearAcknowledged ==
    /\ clear_acknowledged
    /\ call' = Call("clear_acknowledged", <<>>, "")
    /\ returned' = Nothing
    /\ UNCHANGED <<copy_on_write, quality_vars, object_vars>>
    /\ UNCHANGED <<ncalls, now, rng, s3_vars, athena_vars, execution_log, metrics_vars,
                   app_vars>>

(***************************************************************************)
(* Calls made directly on the serving stage.                               *)
(***************************************************************************)
\* SELECT * LIMIT 2
QueryLimit2 == <<"S", "E", "L", "E", "C", "T", " ", "*", " ", "L", "I", "M", "I", "T", " ", "2">>

\* select * limit 1
QueryLowerLimit1 == <<"s", "e", "l", "e", "c", "t", " ", "*", " ", "l", "i", "m", "i", "t", " ", "1">>

\* SELECT * FROM t
QueryNoLimit == <<"S", "E", "L", "E", "C", "T", " ", "*", " ", "F", "R", "O", "M", " ", "t">>

\* SELECT * LIMIT 9
QueryLimit9 == <<"S", "E", "L", "E", "C", "T", " ", "*", " ", "L", "I", "M", "I", "T", " ", "9">>

\* SELECT * LIMIT 0
QueryLimit0 == <<"S", "E", "L", "E", "C", "T", " ", "*", " ", "L", "I", "M", "I", "T", " ", "0">>

\* SELECT * FROM limits LIMIT 1
QueryLimitsTable == <<"S", "E", "L", "E", "C", "T", " ", "*", " ", "F", "R", "O", "M", " ", "l", "i", "m", "i", "t", "s", " ", "L", "I", "M", "I", "T", " ", "1">>

\* SELECT * LIMIT 1;
QuerySemicolon == <<"S", "E", "L", "E", "C", "T", " ", "*", " ", "L", "I", "M", "I", "T", " ", "1", ";">>

\* SELECT * LIMIT x
QueryBadLimit == <<"S", "E", "L", "E", "C", "T", " ", "*", " ", "L", "I", "M", "I", "T", " ", "x">>

\* SELECT * LIMIT -1
QueryNegative == <<"S", "E", "L", "E", "C", "T", " ", "*", " ", "L", "I", "M", "I", "T", " ", "-", "1">>

\* SELECT * LIMIT
QueryBareLimit == <<"S", "E", "L", "E", "C", "T", " ", "*", " ", "L", "I", "M", "I", "T">>

\* the query texts a client may send
QueryTexts ==
    { QueryLimit2,
      QueryLowerLimit1,
      QueryNoLimit,
      QueryLimit9,
      QueryLimit0,
      QueryLimitsTable,
      QuerySemicolon,
      QueryBadLimit,
      QueryNegative,
      QueryBareLimit }

TableNames == {"pipeline_data", "archive"}

\* a frame of count rows whose ids start after base
Table(base, count) ==
    read_csv(<<"id", "category">>,
             [i \in 1..count |-> <<Num(base + i, 1), Str(IF i % 2 = 1 THEN "A" ELSE "B")>>])

\* the frames a client may register
TableInputs == { Table(0, MaxRows), Table(10, MaxRows - 1) }

\* PipelineOrchestrator.setup_query called by a client
SetupQuery(df) ==
    /\ ncalls < MaxQueries
    /\ ncalls' = ncalls + 1
    /\ setup_query(df, now)
    /\ call' = Call("setup_query", <<>>, "pipeline_data")
    /\ returned' = Returned("stage", Last(execution_log').data, 0)
    /\ UNCHANGED <<copy_on_write, quality_vars, object_vars>>
    /\ UNCHANGED <<now, rng, s3_vars, queries, metrics_vars, alert_vars, app_vars>>

\* AthenaSimulator.store_data called by a client
StoreData(df, table_name) ==
    /\ ncalls < MaxQueries
    /\ ncalls' = ncalls + 1
    /\ store_data(df, table_name)
    /\ call' = Call("store_data", <<>>, table_name)
    /\ returned' = Nothing
    /\ UNCHANGED <<copy_on_write, quality_vars, object_vars>>
    /\ UNCHANGED <<now, rng, s3_vars, queries, execution_log, metrics_vars,
                   alert_vars, app_vars>>

\* AthenaSimulator.execute_query called by a client
ExecuteQuery(query, table_name) ==
    /\ ncalls < MaxQueries
    /\ ncalls' = ncalls + 1
    /\ execute_query(query, table_name, now)
    /\ call' = Call("execute_query", query, table_name)
    /\ UNCHANGED <<copy_on_write, quality_vars, object_vars>>
    /\ UNCHANGED <<now, rng, s3_vars, execution_log, metrics_vars, alert_vars,
                   app_vars>>

(***************************************************************************)
(* Calls made directly on the data quality checker.                        *)
(***************************************************************************)
\* the rows of a dataset under inspection: temp, category
QualityRowChoices ==
    { <<Num(1, 1), Str("A")>>, <<Num(2, 1), Str("B")>>, <<Num(0, 1), Str("A")>>,
      <<Num(-1, 1), Str("A")>>, <<Num(-5, 1), Str("B")>>,
      <<NaN, Str("A")>>, <<Num(2, 1), NaN>> }

\* every dataset of at most MaxRows such rows
NarrowFrames ==
    { read_csv(<<"temp", "category">>, rows) :
        rows \in UNION { [1..k -> QualityRowChoices] : k \in 0..MaxRows } }

\* a dataset of count numeric columns c1, c2, ... and two rows; the first
\* negatives columns hold a negative value, in the second row
WideFrame(count, negatives) ==
    DataFrame([j \in 1..count |-> Col("c" \o ToString(j), "int64")],
              << [j \in 1..count |-> Num(j, 1)],
                 [j \in 1..count |-> IF j <= negatives THEN Num(-j, 1) ELSE Num(0, 1)] >>)

WideFrames == { WideFrame(count, negatives) : count \in 1..MaxCols, negatives \in 0..MaxCols }

\* the datasets a client may have inspected; pd.DataFrame() is one of them
QualityInputs == NarrowFrames \cup WideFrames \cup {EmptyFrame}

\* DataQualityChecker.check_quality called by a client on data_to_process
CheckQuality(np_div) ==
    /\ report.kind = "none"
    /\ report' = check_quality(data_to_process, np_div)
    /\ UNCHANGED <<now, rng, s3_vars, athena_vars, execution_log, metrics_vars,
                   alert_vars, app_vars, call_vars, copy_on_write, object_vars>>

(***************************************************************************)
(* Calls made directly on the enrichment stage.                            *)
(***************************************************************************)
\* the rows of a dataset handed to the stage: a, label, b, c, d
TransformRowChoices ==
    { <<Num(1, 1), Str("A"), Num(5, 1), Num(2, 1), Num(1, 1)>>,
      <<Num(3, 1), Str("B"), Num(5, 1), Num(4, 1), Num(4, 1)>>,
      <<NaN, Str("A"), Num(5, 1), Num(6, 1), Num(2, 1)>>,
      <<Num(-2, 1), Str("B"), Num(5, 1), NaN, Num(3, 1)>> }

\* every dataset of at most MaxRows such rows, and one without a numeric column
TransformInputs ==
    { read_csv(<<"a", "label", "b", "c", "d">>, rows) :
        rows \in UNION { [1..k -> TransformRowChoices] : k \in 0..MaxRows } }
    \cup { read_csv(<<"label">>, << <<Str("A")>>, <<Str("B")>> >>) }

\* PipelineOrchestrator.transform_data called by a client on data_to_process
TransformData ==
    /\ call.op = "none"
    /\ transform_data(data_to_process, now, TRUE)
    /\ call' = Call("transform_data", <<>>, "")
    /\ returned' = Returned("stage", Last(execution_log').data, 0)
    /\ UNCHANGED <<ncalls, now, rng, s3_vars, athena_vars, metrics_vars, alert_vars,
                   app_vars, copy_on_write, quality_vars, object_vars>>

(***************************************************************************)
(* Dataset objects.  A client of the stage methods holds datasets by       *)
(* reference: frames[ref] is the content of the object ref, and held says  *)
(* which object the client's inputs, the StageResults of the execution     *)
(* log, the storage map and the query tables refer to.  A stage method     *)
(* works on objects: it allocates (copy, drop_duplicates) and it writes    *)
(* into an object (fillna(inplace=True), df[name] = ...).                  *)
(***************************************************************************)
\* a faulty copy: "processed_df = df", the same object under a second name
copy_is_alias(h, ref) == [frames |-> h, ref |-> ref]

\* df.copy(): a new object with the content of ref
copy(h, ref) == [frames |-> Append(h, h[ref]), ref |-> Len(h) + 1]

\* GlueSimulator.process_data on the object ref: the copy of line 47, the
\* new object drop_duplicates returns at line 51, and the writes of lines
\* 54-62 into that object
glue_process_objects(h, ref, t, r, cow) ==
    LET copied == copy(h, ref)
        deduped == Append(copied.frames, drop_duplicates(copied.frames[copied.ref]))
        q == Len(deduped)
    IN [frames |-> [deduped EXCEPT ![q] = glue_process_data(@, t, r, cow)], ref |-> q]

\* LambdaSimulator.transform_data on the object ref: the copy of line 87
\* and the writes of lines 94-107 into it
lambda_transform_objects(h, ref, t) ==
    LET copied == copy(h, ref)
    IN [frames |-> [copied.frames EXCEPT ![copied.ref] = lambda_transform_data(@, t)],
        ref |-> copied.ref]

\* the objects the client can name: its inputs and the datasets of the
\* StageResults it was returned
HeldObjects == held.inputs \cup { held.log[i] : i \in 1..Len(held.log) }

\* the objects the client hands to the cleaning and enrichment stages: its
\* inputs and the datasets the cleaning stage returned
StageInputs ==
    held.inputs
    \cup { held.log[i] : i \in { q \in 1..Len(held.log) : execution_log[q].stage = "processing" } }

\* PipelineOrchestrator.ingest_data(df) called by a client: storage[key] and
\* result['data'] are the object df itself
IngestObject(ref, io_ok) ==
    /\ ncalls < MaxCalls
    /\ ncalls' = ncalls + 1
    /\ ingest_data(frames[ref], now, io_ok)
    /\ frames' = frames
    /\ held' = [held EXCEPT !.storage = Put(@, S3Key(now), ref),
                            !.log = IF io_ok THEN Append(@, ref) ELSE @,
                            !.result = IF io_ok THEN ref ELSE @]
    /\ call' = Call("ingest_data", <<>>, "")
    /\ returned' = IF io_ok THEN Returned("stage", frames[ref], 0) ELSE Nothing
    /\ UNCHANGED <<now, rng, athena_vars, metrics_vars, alert_vars, app_vars,
                   copy_on_write, quality_vars>>

\* PipelineOrchestrator.process_data(df) called by a client
ProcessObject(ref) ==
    /\ ncalls < MaxCalls
    /\ ncalls' = ncalls + 1
    /\ process_data(frames[ref], now, TRUE)
    /\ frames' = glue_process_objects(frames, ref, now, rng, copy_on_write).frames
    /\ held' = [held EXCEPT
                   !.log = Append(@, glue_process_objects(frames, ref, now, rng,
                                                          copy_on_write).ref),
                   !.result = glue_process_objects(frames, ref, now, rng,
                                                   copy_on_write).ref]
    /\ call' = Call("process_data", <<>>, "")
    /\ returned' = Returned("stage", frames'[held'.result], 0)
    /\ UNCHANGED <<now, s3_vars, athena_vars, metrics_vars, alert_vars, app_vars,
                   copy_on_write, quality_vars>>

\* PipelineOrchestrator.transform_data(df) called by a client
TransformObject(ref) ==
    /\ ncalls < MaxCalls
    /\ ncalls' = ncalls + 1
    /\ transform_data(frames[ref], now, TRUE)
    /\ frames' = lambda_transform_objects(frames, ref, now).frames
    /\ held' = [held EXCEPT
                   !.log = Append(@, lambda_transform_objects(frames, ref, now).ref),
                   !.result = lambda_transform_objects(frames, ref, now).ref]
    /\ call' = Call("transform_data", <<>>, "")
    /\ returned' = Returned("stage", frames'[held'.result], 0)
    /\ UNCHANGED <<now, rng, s3_vars, athena_vars, metrics_vars, alert_vars, app_vars,
                   copy_on_write, quality_vars>>

\* PipelineOrchestrator.setup_query(df) called by a client: the table and
\* result['data'] are the object df itself
QueryObject(ref) ==
    /\ ncalls < MaxCalls
    /\ ncalls' = ncalls + 1
    /\ setup_query(frames[ref], now)
    /\ frames' = frames
    /\ held' = [held EXCEPT !.tables = Put(@, "pipeline_data", ref),
                            !.log = Append(@, ref),
                            !.result = ref]
    /\ call' = Call("setup_query", <<>>, "pipeline_data")
    /\ returned' = Returned("stage", frames[ref], 0)
    /\ UNCHANGED <<now, rng, s3_vars, queries, metrics_vars, alert_vars, app_vars,
                   copy_on_write, quality_vars>>

(***************************************************************************)
(* Specifications.                                                         *)
(***************************************************************************)
\* the state after the constructors (app.py lines 30-31 and 116-123)
Init ==
    /\ now = 0
    /\ rng \in 0..MaxSeed
    /\ storage = <<>>
    /\ csv_files = <<>>
    /\ tables = <<>>
    /\ queries = <<>>
    /\ execution_log = <<>>
    /\ runs = <<>>
    /\ total_records = 0
    /\ alerts = <<>>
    /\ heap = <<>>
    /\ pc = "idle"
    /\ data_to_process = EmptyFrame
    /\ ingestion_result = EmptyFrame
    /\ processing_result = EmptyFrame
    /\ transformation_result = EmptyFrame
    /\ start_time = 0
    /\ clicks = 0
    /\ call = NoCall
    /\ returned = Nothing
    /\ ncalls = 0
    /\ copy_on_write \in BOOLEAN
    /\ report = NoReport
    /\ frames = <<>>
    /\ held = NoRefs

\* a dashboard session: the user runs the full pipeline on uploaded data
Next ==
    \/ \E df \in Uploads, delay \in 0..MaxDelay : RunPipeline(df, delay)
    \/ \E io_ok \in BOOLEAN : IngestStage(io_ok)
    \/ \E ok \in BOOLEAN : ProcessStage(ok)
    \/ \E ok \in BOOLEAN : TransformStage(ok)
    \/ QueryStage
    \/ RecordSuccess
    \/ HandleException

Spec == Init /\ [][Next]_vars

\* one run of the block on any dataset: the state at line 319 of the first
\* click of a session
InitRun ==
    /\ now = 0
    /\ rng \in 0..MaxSeed
    /\ storage = <<>>
    /\ csv_files = <<>>
    /\ tables = <<>>
    /\ queries = <<>>
    /\ execution_log = <<>>
    /\ runs = <<>>
    /\ total_records = 0
    /\ alerts = <<>>
    /\ heap = <<>>
    /\ pc = "ingest"
    /\ data_to_process \in Inputs
    /\ ingestion_result = EmptyFrame
    /\ processing_result = EmptyFrame
    /\ transformation_result = EmptyFrame
    /\ start_time = 0
    /\ clicks = 1
    /\ call = NoCall
    /\ returned = Nothing
    /\ ncalls = 0
    /\ copy_on_write \in BOOLEAN
    /\ report = NoReport
    /\ frames = <<>>
    /\ held = NoRefs

NextRun ==
    \/ \E io_ok \in BOOLEAN : IngestStage(io_ok)
    \/ \E ok \in BOOLEAN : ProcessStage(ok)
    \/ \E ok \in BOOLEAN : TransformStage(ok)
    \/ QueryStage
    \/ RecordSuccess
    \/ HandleException

SpecRun == InitRun /\ [][NextRun]_vars

\* a client of the run metrics tracker
NextMetrics ==
    \E duration \in 0..MaxVal, success \in BOOLEAN, records \in 0..MaxVal :
        AddRun(duration, success, records)

SpecMetrics == Init /\ [][NextMetrics]_vars

\* a client of the alert registry
NextAlerts ==
    \/ \E severity \in AlertSeverity, message \in AlertMessages :
          CreateAlert(severity, message)
    \/ \E a \in 1..Len(heap) : AcknowledgeAlert(a)
    \/ ClearAcknowledged

SpecAlerts == Init /\ [][NextAlerts]_vars

\* a client of the serving stage
NextAthena ==
    \/ \E df \in TableInputs : SetupQuery(df)
    \/ \E df \in TableInputs, table_name \in TableNames : StoreData(df, table_name)
    \/ \E query \in QueryTexts, table_name \in TableNames :
          ExecuteQuery(query, table_name)

SpecAthena == Init /\ [][NextAthena]_vars

\* a client of the data quality checker: one inspection of any dataset
InitQuality ==
    /\ now = 0
    /\ rng = 0
    /\ storage = <<>>
    /\ csv_files = <<>>
    /\ tables = <<>>
    /\ queries = <<>>
    /\ execution_log = <<>>
    /\ runs = <<>>
    /\ total_records = 0
    /\ alerts = <<>>
    /\ heap = <<>>
    /\ pc = "idle"
    /\ data_to_process \in QualityInputs
    /\ ingestion_result = EmptyFrame
    /\ processing_result = EmptyFrame
    /\ transformation_result = EmptyFrame
    /\ start_time = 0
    /\ clicks = 0
    /\ call = NoCall
    /\ returned = Nothing
    /\ ncalls = 0
    /\ copy_on_write \in BOOLEAN
    /\ report = NoReport
    /\ frames = <<>>
    /\ held = NoRefs

NextQuality == \E np_div \in BOOLEAN : CheckQuality(np_div)

SpecQuality == InitQuality /\ [][NextQuality]_vars

\* a client of the enrichment stage: one call on any dataset
InitLambda ==
    /\ now = 0
    /\ rng = 0
    /\ storage = <<>>
    /\ csv_files = <<>>
    /\ tables = <<>>
    /\ queries = <<>>
    /\ execution_log = <<>>
    /\ runs = <<>>
    /\ total_records = 0
    /\ alerts = <<>>
    /\ heap = <<>>
    /\ pc = "idle"
    /\ data_to_process \in TransformInputs
    /\ ingestion_result = EmptyFrame
    /\ processing_result = EmptyFrame
    /\ transformation_result = EmptyFrame
    /\ start_time = 0
    /\ clicks = 0
    /\ call = NoCall
    /\ returned = Nothing
    /\ ncalls = 0
    /\ copy_on_write \in BOOLEAN
    /\ report = NoReport
    /\ frames = <<>>
    /\ held = NoRefs

NextLambda == TransformData

SpecLambda == InitLambda /\ [][NextLambda]_vars

\* a client of the stage methods that holds one dataset and calls the
\* stages on it and on what they returned
InitObjects ==
    /\ now = 0
    /\ rng = 0
    /\ storage = <<>>
    /\ csv_files = <<>>
    /\ tables = <<>>
    /\ queries = <<>>
    /\ execution_log = <<>>
    /\ runs = <<>>
    /\ total_records = 0
    /\ alerts = <<>>
    /\ heap = <<>>
    /\ pc = "idle"
    /\ data_to_process = EmptyFrame
    /\ ingestion_result = EmptyFrame
    /\ processing_result = EmptyFrame
    /\ transformation_result = EmptyFrame
    /\ start_time = 0
    /\ clicks = 0
    /\ call = NoCall
    /\ returned = Nothing
    /\ ncalls = 0
    /\ copy_on_write \in BOOLEAN
    /\ report = NoReport
    /\ frames \in { <<df>> : df \in Uploads }
    /\ held = [NoRefs EXCEPT !.inputs = {1}]

NextObjects ==
    \/ \E ref \in HeldObjects, io_ok \in BOOLEAN : IngestObject(ref, io_ok)
    \/ \E ref \in StageInputs : ProcessObject(ref)
    \/ \E ref \in StageInputs : TransformObject(ref)
    \/ \E ref \in HeldObjects : QueryObject(ref)

SpecObjects == InitObjects /\ [][NextObjects]_vars

(***************************************************************************)
(* Claims about the orchestrator and the "Run Pipeline" block.             *)
(***************************************************************************)
StageNames == <<"ingestion", "processing", "transformation", "query">>

\* the stage whose entry must directly precede an entry of stage st
Predecessor(st) ==
    CASE st = "processing" -> "ingestion"
      [] st = "transformation" -> "processing"
      [] st = "query" -> "transformation"
      [] OTHER -> "none"

\* the stage a position of the block is about to call
StageOfPc(p) ==
    CASE p = "ingest" -> "ingestion"
      [] p = "process" -> "processing"
      [] p = "transform" -> "transformation"
      [] p = "query" -> "query"
      [] OTHER -> "none"

StagePcs == {"ingest", "process", "transform", "query"}

\* C1: the stages run in the strict sequence ingestion -> processing ->
\* transformation -> query.  In every reachable state every entry of the
\* execution log names one of the four stages, every entry that is not an
\* ingestion entry directly follows an entry of its predecessor stage, and
\* the stage the block is about to call next is the successor of the stage
\* logged last (ingestion at the start of a run).
C1_StrictSequence ==
    /\ \A i \in 1..Len(execution_log) :
          /\ \E q \in 1..4 : execution_log[i].stage = StageNames[q]
          /\ execution_log[i].stage # "ingestion" =>
                /\ i > 1
                /\ execution_log[i - 1].stage = Predecessor(execution_log[i].stage)
    /\ pc \in {"process", "transform", "query"} =>
          /\ execution_log # <<>>
          /\ Last(execution_log).stage = Predecessor(StageOfPc(pc))
    /\ pc = "record" => execution_log # <<>> /\ Last(execution_log).stage = "query"

\* a session in which a complete run follows a run that stopped after its
\* processing stage
C1_Witness ==
    /\ Len(execution_log) = 6
    /\ execution_log[2].stage = "processing"
    /\ execution_log[3].stage = "ingestion"
    /\ execution_log[6].stage = "query"

\* C2: the execution log is append-only.  Every step leaves the entries
\* already in the log as they are and in place; a stage call that returns
\* appends exactly one entry, which carries the stage's own name and whose
\* records field is the row count of the dataset it holds; a stage call that
\* raises (the block moves to its except clause) appends nothing; no other
\* step changes the log.
C2_AppendOnly ==
    [][ /\ Len(execution_log') >= Len(execution_log)
        /\ SubSeq(execution_log', 1, Len(execution_log)) = execution_log
        /\ (pc \in StagePcs /\ pc' # "except") =>
              /\ Len(execution_log') = Len(execution_log) + 1
              /\ Last(execution_log').stage = StageOfPc(pc)
              /\ Last(execution_log').records = Len(Last(execution_log').data.rows)
        /\ (pc \in StagePcs /\ pc' = "except") => execution_log' = execution_log
        /\ pc \notin StagePcs => execution_log' = execution_log
      ]_vars

\* a run whose ingestion raised after an earlier run had logged its stages
C2_Witness ==
    /\ pc = "except"
    /\ Len(execution_log) = 4
    /\ ingestion_result = EmptyFrame
    /\ clicks = 2

\* the number of different rows of a dataset
DistinctRows(df) == Cardinality({ df.rows[i] : i \in 1..Len(df.rows) })

\* C3: for every input dataset D, the record counts logged by one run of
\* the pipeline satisfy records(ingestion) = |D| >= records(processing) =
\* records(transformation) = records(query), and the cleaning stage keeps
\* exactly one row of each group of equal rows.
C3_RecordCounts ==
    LET log == execution_log
    IN /\ Len(log) >= 1 => log[1].records = Len(data_to_process.rows)
       /\ Len(log) >= 2 =>
             /\ log[2].records <= log[1].records
             /\ log[2].records = DistinctRows(data_to_process)
       /\ Len(log) >= 3 => log[3].records = log[2].records
       /\ Len(log) >= 4 => log[4].records = log[3].records

\* a complete run in which the cleaning stage removed a row and kept others
C3_Witness ==
    /\ Len(execution_log) = 4
    /\ execution_log[4].stage = "query"
    /\ execution_log[1].records = 3
    /\ execution_log[4].records = 2

\* C4: an I/O failure of the durable CSV write does not abort ingestion.
\* Whenever the block calls ingest_data and the snapshot of the submitted
\* dataset is not on disk afterwards, the call still returns: the block goes
\* on to the processing stage, the ingestion entry is appended to the
\* execution log, the storage map holds the new key and no exception reaches
\* the caller.
C4_WriteFailureTolerated ==
    [][ ( /\ pc = "ingest"
          /\ pc' # "ingest"
          /\ \/ S3Key(now') \notin DOMAIN csv_files'
             \/ csv_files'[S3Key(now')] # data_to_process )
        => /\ pc' = "process"
           /\ S3Key(now') \in DOMAIN storage'
           /\ storage'[S3Key(now')] = data_to_process
           /\ Len(execution_log') = Len(execution_log) + 1
           /\ Last(execution_log').stage = "ingestion"
      ]_vars

\* C5: every full-pipeline invocation records exactly one PipelineRun.  The
\* tracker holds one run per finished invocation and none for the one in
\* progress; when all four stages have returned the run recorded is a
\* success with the row count of the submitted dataset; when a stage raised
\* the run recorded is a failure with duration 0 and record count 0; no
\* other step records a run.
C5_OneRunPerInvocation ==
    /\ [](Len(runs) = IF pc = "idle" THEN clicks ELSE clicks - 1)
    /\ [][ /\ pc = "record" =>
                /\ Len(runs') = Len(runs) + 1
                /\ SubSeq(runs', 1, Len(runs)) = runs
                /\ Last(runs').success
                /\ Last(runs').records = Len(data_to_process.rows)
           /\ pc = "except" =>
                /\ Len(runs') = Len(runs) + 1
                /\ SubSeq(runs', 1, Len(runs)) = runs
                /\ ~Last(runs').success
                /\ Last(runs').duration = 0
                /\ Last(runs').records = 0
           /\ pc \notin {"record", "except"} => runs' = runs
         ]_vars

\* a session with one failed and one successful invocation on record
C5_Witness ==
    /\ pc = "idle"
    /\ Len(runs) = 2
    /\ ~runs[1].success
    /\ runs[2].success
    /\ runs[2].records = 3

(***************************************************************************)
(* Claims about the run metrics tracker.                                   *)
(***************************************************************************)
\* the sum of f[i] over the positions i of the set S
RECURSIVE SumOver(_, _)
SumOver(f, S) ==
    IF S = {} THEN 0
    ELSE LET i == CHOOSE x \in S : TRUE
         IN f[i] + SumOver(f, S \ {i})

\* C6: get_success_rate is 100 when no run is recorded and otherwise the
\* number of successful runs divided by the number of runs, times 100;
\* get_avg_duration is 0 when no run is recorded and otherwise the sum of
\* the recorded durations divided by the number of runs; after exactly one
\* failed run the success rate is 0.
C6_RatesAndAverages ==
    LET n == Len(runs)
        good == Cardinality({ i \in 1..n : runs[i].success })
        total == SumOver([i \in 1..n |-> runs[i].duration], 1..n)
    IN /\ get_success_rate = IF n = 0 THEN RInt(100) ELSE Rat(100 * good, n)
       /\ get_avg_duration = IF n = 0 THEN RInt(0) ELSE Rat(total, n)
       /\ (n = 1 /\ ~runs[1].success) => get_success_rate = RInt(0)

\* one success in three runs: a rate of 100/3 and a mean duration of 2/3
C6_Witness ==
    /\ Len(runs) = 3
    /\ get_success_rate = [n |-> 100, d |-> 3]
    /\ get_avg_duration = [n |-> 2, d |-> 3]

\* C7: get_total_records is the sum of the records field over exactly the
\* recorded runs that succeeded; a failed run leaves total_records as it is;
\* the run list changes only by one entry being appended, the entries
\* already recorded staying as they are.
C7_TotalRecords ==
    /\ [](get_total_records =
             SumOver([i \in 1..Len(runs) |-> runs[i].records],
                     { i \in 1..Len(runs) : runs[i].success }))
    /\ [][ /\ runs' # runs =>
                /\ Len(runs') = Len(runs) + 1
                /\ SubSeq(runs', 1, Len(runs)) = runs
                /\ ~Last(runs').success => total_records' = total_records
           /\ runs' = runs => total_records' = total_records
         ]_vars

\* a failed run that carried a record count, beside a successful one
C7_Witness ==
    /\ Len(runs) = 2
    /\ ~runs[1].success
    /\ runs[1].records = 1
    /\ runs[2].success
    /\ runs[2].records = 1
    /\ total_records = 1

(***************************************************************************)
(* Claims about the alert registry.                                        *)
(***************************************************************************)
InRegistry(a, registry) == \E i \in 1..Len(registry) : registry[i] = a

\* the position of alert a in a registry that holds it
PositionIn(a, registry) == CHOOSE i \in 1..Len(registry) : registry[i] = a

\* C8: create_alert appends a new, unacknowledged alert with the given
\* fields at the end of the registry and returns it; get_active_alerts is
\* exactly the unacknowledged alerts of the registry, each once, in the order
\* of their creation.
C8_CreateAndActive ==
    /\ [](LET active == get_active_alerts
          IN /\ \A i \in 1..Len(active) :
                   /\ InRegistry(active[i], alerts)
                   /\ ~heap[active[i]].acknowledged
             /\ \A i \in 1..Len(alerts) :
                   ~heap[alerts[i]].acknowledged => InRegistry(alerts[i], active)
             /\ \A i, j \in 1..Len(active) : i < j => active[i] < active[j])
    /\ [][ Len(heap') # Len(heap) =>
              /\ call'.op = "create_alert"
              /\ Len(heap') = Len(heap) + 1
              /\ SubSeq(heap', 1, Len(heap)) = heap
              /\ returned'.kind = "alert"
              /\ returned'.alert = Len(heap')
              /\ ~heap'[returned'.alert].acknowledged
              /\ heap'[returned'.alert].severity \in AlertSeverity
              /\ alerts' = Append(alerts, returned'.alert)
         ]_vars

\* a registry holding an acknowledged and an active alert after an
\* acknowledged one was cleared
C8_Witness ==
    /\ Len(heap) = 3
    /\ alerts = <<2, 3>>
    /\ heap[1].acknowledged
    /\ heap[2].acknowledged
    /\ ~heap[3].acknowledged

\* C9: the alert lifecycle.  In every step: an acknowledged alert stays
\* acknowledged and a flag changes only in an acknowledge call; an alert
\* leaves the registry only in a clear_acknowledged call and only if it was
\* acknowledged; an alert outside the registry stays outside; a
\* clear_acknowledged call leaves no acknowledged alert in the registry,
\* keeps every unacknowledged one, keeps their relative order and leaves
\* get_active_alerts as it was.
C9_AlertLifecycle ==
    [][ /\ Len(heap') >= Len(heap)
        /\ \A a \in 1..Len(heap) :
              /\ heap[a].acknowledged => heap'[a].acknowledged
              /\ heap'[a].acknowledged # heap[a].acknowledged =>
                    call'.op = "acknowledge_alert"
              /\ (InRegistry(a, alerts) /\ ~InRegistry(a, alerts')) =>
                    call'.op = "clear_acknowledged" /\ heap[a].acknowledged
              /\ ~InRegistry(a, alerts) => ~InRegistry(a, alerts')
        /\ call'.op = "clear_acknowledged" =>
              /\ \A i \in 1..Len(alerts') : ~heap'[alerts'[i]].acknowledged
              /\ \A i \in 1..Len(alerts) :
                    ~heap[alerts[i]].acknowledged => InRegistry(alerts[i], alerts')
              /\ \A i, j \in 1..Len(alerts') :
                    i < j => PositionIn(alerts'[i], alerts) < PositionIn(alerts'[j], alerts)
              /\ get_active_alerts' = get_active_alerts
      ]_vars

\* a clear_acknowledged call that removed the second of three alerts
C9_Witness ==
    /\ call.op = "clear_acknowledged"
    /\ Len(heap) = 3
    /\ alerts = <<1, 3>>
    /\ heap[2].acknowledged
    /\ ~heap[1].acknowledged

(***************************************************************************)
(* Claims about the serving stage.                                         *)
(***************************************************************************)
\* the leading decimal digits of text
RECURSIVE LeadingDigits(_)
LeadingDigits(text) ==
    IF text = <<>> \/ ~IsDigit(Head(text)) THEN <<>>
    ELSE <<Head(text)>> \o LeadingDigits(Tail(text))

\* what follows the five letters at position i of text
AfterWord(text, i) == SubSeq(text, i + 5, Len(text))

\* the positions at which text holds the word LIMIT (in any case), then at
\* least one blank, then a decimal number
LimitTokens(text) ==
    { i \in 1..Len(text) :
        /\ OccursAt(upper(text), LIMIT, i)
        /\ AfterWord(text, i) # <<>>
        /\ IsSpace(Head(AfterWord(text, i)))
        /\ LeadingDigits(LStrip(AfterWord(text, i))) # <<>> }

\* the row counts n for which text contains 'LIMIT n'
ClaimedLimits(text) ==
    { DigitsValue(LeadingDigits(LStrip(AfterWord(text, i))), 0) : i \in LimitTokens(text) }

\* C10: the round trip through the serving stage.  After a dataset D was
\* registered under a table name, execute_query on that table with a text
\* that contains a case-insensitive 'LIMIT n' returns exactly the first
\* min(n, rows(D)) rows of the D registered last, columns and values
\* unchanged, and with a text without LIMIT it returns all rows of D.
C10_LimitRoundTrip ==
    (call.op = "execute_query" /\ call.table \in DOMAIN tables) =>
        LET D == tables[call.table]
        IN /\ returned.df.cols = D.cols
           /\ \A count \in ClaimedLimits(call.text) :
                 returned.df.rows = SubSeq(D.rows, 1, Min(count, Len(D.rows)))
           /\ ~Contains(upper(call.text), LIMIT) => returned.df = D

\* C11: every execute_query call is recorded in the query log.  In every
\* step that is an execute_query call, on a registered or on an unknown
\* table, the query log grows by exactly one entry, at its end, holding the
\* query text of the call and the number of rows the call returned; no
\* other step changes the query log.
C11_EveryQueryLogged ==
    [][ IF ncalls' # ncalls /\ call'.op = "execute_query"
        THEN /\ Len(queries') = Len(queries) + 1
             /\ SubSeq(queries', 1, Len(queries)) = queries
             /\ Last(queries').query = call'.text
             /\ Last(queries').rows_returned = NRows(returned'.df)
        ELSE queries' = queries
      ]_vars

(***************************************************************************)
(* Claims about the data quality checker.                                  *)
(***************************************************************************)
\* a dataset with at least one row and one column, no missing value, no
\* negative value in a numeric column and no two equal rows
CleanDataset(df) ==
    /\ NRows(df) >= 1
    /\ NCols(df) >= 1
    /\ \A i \in 1..NRows(df), j \in 1..NCols(df) :
          /\ df.rows[i][j].k # "nan"
          /\ (df.cols[j].dtype \in {"int64", "float64"}) => df.rows[i][j].n >= 0
    /\ \A i, k \in 1..NRows(df) : i # k => df.rows[i] # df.rows[k]

\* C12: check_quality on a dataset with at least one row and one column
\* that has no missing value, no negative value in a numeric column and no
\* duplicate row returns completeness = validity = uniqueness = 100,
\* overall_score = 100 and an empty issues list.
C12_CleanDataset ==
    (report.kind # "none" /\ CleanDataset(data_to_process)) =>
        report = QualityReport("report", Num(100, 1), Num(100, 1), Num(100, 1), <<>>,
                               Num(100, 1))

\* a clean dataset of three rows with text and numbers was inspected
C12_Witness ==
    /\ report.kind = "report"
    /\ CleanDataset(data_to_process)
    /\ NRows(data_to_process) = 3
    /\ NCols(data_to_process) = 2
    /\ report.issues = <<>>
    /\ report.overall_score = Num(100, 1)

\* C13: check_quality on a dataset with zero rows (or zero cells) does not
\* raise and returns a defined number, not NaN, for completeness, uniqueness
\* and overall_score.
C13_EmptyDataset ==
    (report.kind # "none" /\ NRows(data_to_process) * NCols(data_to_process) = 0) =>
        /\ report.kind = "report"
        /\ report.completeness.k = "num"
        /\ report.uniqueness.k = "num"
        /\ report.overall_score.k = "num"

\* the number of numeric columns of df that hold at least one negative value
NegativeColumns(df) ==
    Cardinality({ j \in 1..NCols(df) :
                    /\ df.cols[j].dtype \in {"int64", "float64"}
                    /\ \E i \in 1..NRows(df) :
                          df.rows[i][j].k = "num" /\ df.rows[i][j].n < 0 })

\* whether the score c is a number of [0, 100]
InPercentRange(c) == c.k = "num" /\ c.n >= 0 /\ c.n <= 100 * c.d

\* C15: for every dataset with at least one row, those with more than 20
\* offending numeric columns included, the reported validity is 100 minus 5
\* for each numeric column holding a negative value, floored at 0; the
\* overall_score is the arithmetic mean of the reported completeness,
\* validity and uniqueness; every reported score lies in [0, 100].
C15_ValidityAndOverall ==
    (report.kind = "report" /\ NRows(data_to_process) >= 1) =>
        /\ report.validity = Num(Max(100 - 5 * NegativeColumns(data_to_process), 0), 1)
        /\ report.overall_score =
              CellDiv(CellAdd(CellAdd(report.completeness, report.validity),
                              report.uniqueness), 3)
        /\ InPercentRange(report.completeness)
        /\ InPercentRange(report.validity)
        /\ InPercentRange(report.uniqueness)
        /\ InPercentRange(report.overall_score)

(***************************************************************************)
(* Claims about the enrichment stage.                                      *)
(***************************************************************************)
IsNumericColumn(df, j) == df.cols[j].dtype \in {"int64", "float64"}

\* the rank of column j among the numeric columns of df, in column order
NumericRank(df, j) == Cardinality({ q \in 1..j : IsNumericColumn(df, q) })

HasColumn(df, name) == \E q \in 1..NCols(df) : df.cols[q].name = name

\* the cells of the column of that name
ColumnNamed(df, name) == Column(df, CHOOSE q \in 1..NCols(df) : df.cols[q].name = name)

\* whether cell c is a number of [0, 1]
InUnitRange(c) == c.k = "num" /\ c.n >= 0 /\ c.n <= c.d

\* whether cells[i] is the least / the greatest of the values of the column
IsColumnMin(cells, i) ==
    /\ cells[i].k = "num"
    /\ \A q \in 1..Len(cells) : cells[q].k = "num" => RLeq(RatOf(cells[i]), RatOf(cells[q]))

IsColumnMax(cells, i) ==
    /\ cells[i].k = "num"
    /\ \A q \in 1..Len(cells) : cells[q].k = "num" => RLeq(RatOf(cells[q]), RatOf(cells[i]))

\* C14 as stated: for each of the first three numeric columns of the input,
\* in input order, no '<col>_normalized' column is produced if all its
\* values are equal, and otherwise one is produced whose values all lie in
\* [0, 1], the rows holding the column minimum mapped to 0 and those holding
\* the maximum mapped to 1; no normalized column is produced for a fourth or
\* later numeric column.
C14_Normalization ==
    call.op = "transform_data" =>
        \A j \in 1..NCols(data_to_process) :
            IsNumericColumn(data_to_process, j) =>
                LET name == data_to_process.cols[j].name \o "_normalized"
                    cells == Column(data_to_process, j)
                    out == returned.df
                IN IF NumericRank(data_to_process, j) > 3
                      \/ \A i, q \in 1..Len(cells) : cells[i] = cells[q]
                   THEN ~HasColumn(out, name)
                   ELSE /\ HasColumn(out, name)
                        /\ \A i \in 1..Len(cells) :
                              /\ InUnitRange(ColumnNamed(out, name)[i])
                              /\ IsColumnMin(cells, i) =>
                                    ColumnNamed(out, name)[i] = Num(0, 1)
                              /\ IsColumnMax(cells, i) =>
                                    ColumnNamed(out, name)[i] = Num(1, 1)

\* C14, amended for missing values: for each of the first three numeric
\* columns of the input, in input order, no '<col>_normalized' column is
\* produced if its non-missing values are all equal (or it has none), and
\* otherwise one is produced in which every row with a value holds a number
\* of [0, 1], the rows holding the column minimum hold 0, the rows holding
\* the maximum hold 1, and every row with a missing value holds a missing
\* value; no normalized column is produced for a fourth or later numeric
\* column.
C14_NormalizationAmended ==
    call.op = "transform_data" =>
        \A j \in 1..NCols(data_to_process) :
            IsNumericColumn(data_to_process, j) =>
                LET name == data_to_process.cols[j].name \o "_normalized"
                    cells == Column(data_to_process, j)
                    out == returned.df
                IN IF NumericRank(data_to_process, j) > 3
                      \/ \A i, q \in 1..Len(cells) :
                            (cells[i].k = "num" /\ cells[q].k = "num") => cells[i] = cells[q]
                   THEN ~HasColumn(out, name)
                   ELSE /\ HasColumn(out, name)
                        /\ \A i \in 1..Len(cells) :
                              IF cells[i].k = "nan"
                              THEN ColumnNamed(out, name)[i].k = "nan"
                              ELSE /\ InUnitRange(ColumnNamed(out, name)[i])
                                   /\ IsColumnMin(cells, i) =>
                                         ColumnNamed(out, name)[i] = Num(0, 1)
                                   /\ IsColumnMax(cells, i) =>
                                         ColumnNamed(out, name)[i] = Num(1, 1)

\* a call that normalised a and c, with a value strictly between 0 and 1 and
\* a missing one, and that left out the constant b and the fourth column d
C14_Witness ==
    /\ call.op = "transform_data"
    /\ NRows(data_to_process) = 3
    /\ HasColumn(returned.df, "a_normalized")
    /\ HasColumn(returned.df, "c_normalized")
    /\ ~HasColumn(returned.df, "b_normalized")
    /\ ~HasColumn(returned.df, "d_normalized")
    /\ \E i \in 1..3 :
          /\ InUnitRange(ColumnNamed(returned.df, "c_normalized")[i])
          /\ ColumnNamed(returned.df, "c_normalized")[i] \notin {Num(0, 1), Num(1, 1)}
    /\ \E i \in 1..3 : ColumnNamed(returned.df, "a_normalized")[i].k = "nan"

(***************************************************************************)
(* Claims about the cleaning stage.                                        *)
(***************************************************************************)
\* the rows of a dataset without the rows equal to an earlier row, in order
FirstOccurrences(rows) ==
    LET keep == { i \in 1..Len(rows) : \A q \in 1..(i - 1) : rows[q] # rows[i] }
    IN [n \in 1..Cardinality(keep) |->
           rows[CHOOSE i \in keep : Cardinality({ q \in keep : q <= i }) = n]]

\* C16: the dataset returned by the cleaning stage has no missing value in
\* any column of the input.  Its rows are the input rows without exact
\* duplicates; in them every missing cell of a numeric column holds the
\* column's median over its non-missing values after deduplication (a
\* defined substitute when the column has none) and every missing cell of
\* another column holds "Unknown"; the cells that held a value keep it.
C16_NoMissingAfterCleaning ==
    pc \in {"transform", "query", "record"} =>
        LET given == FirstOccurrences(ingestion_result.rows)
            out == processing_result
        IN /\ NRows(out) = Len(given)
           /\ \A i \in 1..NRows(out), j \in 1..NCols(ingestion_result) :
                 /\ out.rows[i][j].k # "nan"
                 /\ given[i][j].k # "nan" => out.rows[i][j] = given[i][j]
                 /\ given[i][j].k = "nan" =>
                       IF ingestion_result.cols[j].dtype \in {"int64", "float64"}
                       THEN \/ out.rows[i][j] = median([q \in 1..Len(given) |-> given[q][j]])
                            \/ \A q \in 1..Len(given) : given[q][j].k = "nan"
                       ELSE out.rows[i][j] = Str("Unknown")

(***************************************************************************)
(* Claims about malformed limits.                                          *)
(***************************************************************************)
\* C17: a malformed limit is caught and ignored.  When the text of an
\* execute_query call on a registered table holds the word LIMIT and what
\* follows it is nowhere a row count (blanks and then decimal digits), the
\* call returns all rows of the table and its entry in the query log holds
\* the full row count.
C17_MalformedLimitIgnored ==
    ( /\ call.op = "execute_query"
      /\ call.table \in DOMAIN tables
      /\ Contains(upper(call.text), LIMIT)
      /\ LimitTokens(call.text) = {} ) =>
        /\ returned.df = tables[call.table]
        /\ queries # <<>>
        /\ Last(queries).query = call.text
        /\ Last(queries).rows_returned = NRows(tables[call.table])

(***************************************************************************)
(* Claims about dataset objects.                                           *)
(***************************************************************************)
\* C18: no stage mutates a dataset it was given.  In every step no dataset
\* object changes its columns, rows or values, so the dataset handed to
\* ingest_data, process_data, transform_data or setup_query is after the
\* call what it was before; the StageResults already in the execution log
\* keep their fields and their dataset; and at all times the dataset of
\* every StageResult, of every storage-map entry and of every query table
\* is what it was when the entry was made.
C18_NoStageMutatesInput ==
    /\ []( /\ Len(held.log) = Len(execution_log)
           /\ \A i \in 1..Len(held.log) : frames[held.log[i]] = execution_log[i].data
           /\ \A key \in DOMAIN held.storage : frames[held.storage[key]] = storage[key]
           /\ \A name \in DOMAIN held.tables : frames[held.tables[name]] = tables[name] )
    /\ [][ /\ Len(frames') >= Len(frames)
           /\ \A ref \in 1..Len(frames) : frames'[ref] = frames[ref]
           /\ SubSeq(held'.log, 1, Len(held.log)) = held.log
           /\ SubSeq(execution_log', 1, Len(execution_log)) = execution_log
         ]_vars

\* the client's dataset of three rows was ingested, then transformed, then
\* registered as the query table: the storage map, two StageResults and the
\* table all hold the client's own object
C18_Witness ==
    /\ Len(execution_log) = 3
    /\ held.log[1] = 1
    /\ execution_log[2].stage = "transformation"
    /\ held.log[2] # 1
    /\ held.log[3] = 1
    /\ 0 \in DOMAIN held.storage
    /\ held.storage[0] = 1
    /\ "pipeline_data" \in DOMAIN held.tables
    /\ held.tables["pipeline_data"] = 1
    /\ NRows(frames[1]) = 3
    /\ NCols(frames[held.log[2]]) > NCols(frames[1])

====
